---- MODULE Spec2Model ----
(***************************************************************************)
(* A model of the pixel-puppy JavaScript library: the configuration store  *)
(* (config.ts), the URL resolver (url-utils.ts), the transformation URL    *)
(* builder (urls.ts) and the responsive attributes generator               *)
(* (responsive.ts).                                                        *)
(*                                                                         *)
(* JavaScript strings are sequences of one-character strings, so that      *)
(* startsWith, the regular expressions, the query encoding and the         *)
(* template literals are computed character by character.  JavaScript      *)
(* values are tagged records: undefined, NaN, a number, a string, a        *)
(* boolean.  A call either returns a value or throws an Error.             *)
(*                                                                         *)
(* globalConfig is the object the store refers to.  held is what the       *)
(* caller can still reach of the objects that went through the store: the  *)
(* object it passed to configure and the objects getConfig returned to it. *)
(* written is a history variable: the configuration the most recent        *)
(* configure was given, the empty one after resetConfig and at the start.  *)
(***************************************************************************)
EXTENDS Integers, Sequences, FiniteSets, TLC

VARIABLES globalConfig, location, call, ret, held, written

vars == <<globalConfig, location, call, ret, held, written>>

(***************************************************************************)
(* JavaScript values                                                       *)
(***************************************************************************)
Undefined == [k |-> "undefined"]

NaN == [k |-> "NaN"]

Num(n) == [k |-> "number", n |-> n]

Str(s) == [k |-> "string", s |-> s]

Bool(b) == [k |-> "boolean", b |-> b]

IsStr(v) == v.k = "string"

IsNum(v) == v.k = "number"

\* ToBoolean: undefined, NaN, 0, '' and false are falsy.
Truthy(v) ==
  CASE v.k = "undefined" -> FALSE
    [] v.k = "NaN" -> FALSE
    [] v.k = "number" -> v.n # 0
    [] v.k = "string" -> v.s # <<>>
    [] v.k = "boolean" -> v.b

\* a ?? b
Nullish(a, b) == IF a = Undefined THEN b ELSE a

\* a || b
OrElse(a, b) == IF Truthy(a) THEN a ELSE b

Return(v) == [k |-> "return", v |-> v]

\* new Error(message); the message is the list of the template's segments:
\* a literal segment is a TLA+ string, an interpolated one a character sequence.
Throw(message) == [k |-> "throw", name |-> "Error", message |-> message]

Threw(r) == r.k = "throw"

(***************************************************************************)
(* Strings                                                                 *)
(***************************************************************************)
StartsWith(s, p) == Len(s) >= Len(p) /\ SubSeq(s, 1, Len(p)) = p

Digits == <<"0", "1", "2", "3", "4", "5", "6", "7", "8", "9">>

IsDigit(c) == c \in {"0", "1", "2", "3", "4", "5", "6", "7", "8", "9"}

DigitValue(c) == (CHOOSE i \in 1..10 : Digits[i] = c) - 1

RECURSIVE NatToString(_)
NatToString(n) ==
  IF n < 10 THEN <<Digits[n + 1]>>
  ELSE NatToString(n \div 10) \o <<Digits[(n % 10) + 1]>>

\* Number.prototype.toString() of an integer
NumberToString(n) == IF n < 0 THEN <<"-">> \o NatToString(-n) ELSE NatToString(n)

\* parseInt(s, 10) of a non-empty run of digits
RECURSIVE ParseInt(_)
ParseInt(s) ==
  IF s = <<>> THEN 0
  ELSE 10 * ParseInt(SubSeq(s, 1, Len(s) - 1)) + DigitValue(s[Len(s)])

UpperCase ==
  <<"A", "B", "C", "D", "E", "F", "G", "H", "I", "J", "K", "L", "M",
    "N", "O", "P", "Q", "R", "S", "T", "U", "V", "W", "X", "Y", "Z">>

LowerCase ==
  <<"a", "b", "c", "d", "e", "f", "g", "h", "i", "j", "k", "l", "m",
    "n", "o", "p", "q", "r", "s", "t", "u", "v", "w", "x", "y", "z">>

\* String.prototype.toLowerCase()
ToLowerCase(s) ==
  [i \in 1..Len(s) |->
     IF s[i] \in {UpperCase[j] : j \in 1..26}
     THEN LowerCase[CHOOSE j \in 1..26 : UpperCase[j] = s[i]]
     ELSE s[i]]

\* Array.prototype.join(sep) of an array of strings
RECURSIVE Join(_, _)
Join(parts, sep) ==
  IF parts = <<>> THEN <<>>
  ELSE IF Len(parts) = 1 THEN parts[1]
  ELSE Join(SubSeq(parts, 1, Len(parts) - 1), sep) \o sep \o parts[Len(parts)]

(***************************************************************************)
(* URLSearchParams.toString(): the application/x-www-form-urlencoded       *)
(* serializer.  Letters, digits and * - . _ are kept, a space becomes +,   *)
(* every other character becomes %XX (upper-case hexadecimal).             *)
(***************************************************************************)
FormSafe == {"*", "-", ".", "_"}

Letters == {UpperCase[j] : j \in 1..26} \cup {LowerCase[j] : j \in 1..26}

IsAlphaNum(c) == IsDigit(c) \/ c \in Letters

PercentCode(c) ==
  CASE c = "!" -> <<"%", "2", "1">>
    [] c = "\"" -> <<"%", "2", "2">>
    [] c = "#" -> <<"%", "2", "3">>
    [] c = "$" -> <<"%", "2", "4">>
    [] c = "%" -> <<"%", "2", "5">>
    [] c = "&" -> <<"%", "2", "6">>
    [] c = "'" -> <<"%", "2", "7">>
    [] c = "(" -> <<"%", "2", "8">>
    [] c = ")" -> <<"%", "2", "9">>
    [] c = "+" -> <<"%", "2", "B">>
    [] c = "," -> <<"%", "2", "C">>
    [] c = "/" -> <<"%", "2", "F">>
    [] c = ":" -> <<"%", "3", "A">>
    [] c = ";" -> <<"%", "3", "B">>
    [] c = "=" -> <<"%", "3", "D">>
    [] c = "?" -> <<"%", "3", "F">>
    [] c = "@" -> <<"%", "4", "0">>
    [] c = "~" -> <<"%", "7", "E">>

\* Mutant of FormEncodeChar: nothing is escaped.
FormEncodeChar_Raw(c) == <<c>>

FormEncodeChar(c) ==
  IF IsAlphaNum(c) \/ c \in FormSafe THEN <<c>>
  ELSE IF c = " " THEN <<"+">>
  ELSE PercentCode(c)

RECURSIVE FormEncode(_)
FormEncode(s) ==
  IF s = <<>> THEN <<>>
  ELSE FormEncode(SubSeq(s, 1, Len(s) - 1)) \o FormEncodeChar(s[Len(s)])

\* params is the list of appended <<name, value>> pairs, in append order.
SearchParamsToString(params) ==
  Join([i \in 1..Len(params) |->
          FormEncode(params[i][1]) \o <<"=">> \o FormEncode(params[i][2])],
       <<"&">>)

(***************************************************************************)
(* config.ts                                                               *)
(***************************************************************************)
\* A PixelPuppyConfig object: its one optional field.
Config(baseUrl) == [baseUrl |-> baseUrl]

EmptyConfig == Config(Undefined)

\* getConfig(): a frozen copy of the stored object
getConfig(stored) == [baseUrl |-> stored.baseUrl]

\* { ...obj }: a new object with the fields of obj
Spread(obj) == [baseUrl |-> obj.baseUrl]

\* Mutant of configureStores: the fields given are merged into the stored
\* object, so that a field the argument lacks keeps its old value.
configureStores_Merged(stored, config) ==
  [value |-> IF config.baseUrl = Undefined THEN Spread(stored) ELSE Spread(config),
   fresh |-> TRUE]

\* Mutant of configureStores: a configuration already set is kept.
configureStores_FirstWins(stored, config) ==
  [value |-> IF stored.baseUrl # Undefined THEN Spread(stored) ELSE Spread(config),
   fresh |-> TRUE]

\* Mutant of configureStores: the argument itself is stored (globalConfig = config).
configureStores_Aliased(stored, config) == [value |-> config, fresh |-> FALSE]

\* globalConfig = { ...config }: what the store refers to after configure, and
\* whether that is a new object (fresh) or the caller's argument itself
configureStores(stored, config) == [value |-> Spread(config), fresh |-> TRUE]

\* Mutant of getConfigReturns: the stored object itself is returned.
getConfigReturns_Original(stored) == [value |-> stored, fresh |-> FALSE, frozen |-> FALSE]

\* Mutant of getConfigReturns: the copy is not frozen.
getConfigReturns_NotFrozen(stored) ==
  [value |-> getConfig(stored), fresh |-> TRUE, frozen |-> FALSE]

\* Object.freeze({ ...globalConfig }): the object getConfig hands to the caller
getConfigReturns(stored) == [value |-> getConfig(stored), fresh |-> TRUE, frozen |-> TRUE]

\* An object of the caller's: its field, and whether it is frozen
Obj(value, frozen) == [baseUrl |-> value.baseUrl, frozen |-> frozen]

\* A reference of the caller's to the very object the store refers to
StoredRef == [ref |-> "globalConfig"]

\* No object
NoObj == [ref |-> "none"]

\* The caller holds nothing; stale says that a write came after the last
\* getConfig
NoHeld == [arg |-> NoObj, snap |-> NoObj, prev |-> NoObj, stale |-> FALSE]

\* The store now refers to another object: a reference to the object it
\* referred to becomes a plain object of the caller's, with the fields it had.
Detach(obj, stored) == IF obj = StoredRef THEN Obj(stored, FALSE) ELSE obj

(***************************************************************************)
(* url-utils.ts                                                            *)
(***************************************************************************)
\* Mutant of isRelativeUrl: a data: URL is taken for a relative one.
isRelativeUrl_NoData(url) ==
  IF StartsWith(url, <<"/", "/">>) THEN FALSE
  ELSE IF StartsWith(url, <<"h", "t", "t", "p", ":", "/", "/">>)
          \/ StartsWith(url, <<"h", "t", "t", "p", "s", ":", "/", "/">>) THEN FALSE
  ELSE TRUE

\* Mutant of isRelativeUrl: a protocol-relative URL is taken for a relative one.
isRelativeUrl_NoProtocolRelative(url) ==
  IF StartsWith(url, <<"h", "t", "t", "p", ":", "/", "/">>)
     \/ StartsWith(url, <<"h", "t", "t", "p", "s", ":", "/", "/">>) THEN FALSE
  ELSE IF StartsWith(url, <<"d", "a", "t", "a", ":">>) THEN FALSE
  ELSE TRUE

isRelativeUrl(url) ==
  IF StartsWith(url, <<"/", "/">>) THEN FALSE
  ELSE IF StartsWith(url, <<"h", "t", "t", "p", ":", "/", "/">>)
          \/ StartsWith(url, <<"h", "t", "t", "p", "s", ":", "/", "/">>) THEN FALSE
  ELSE IF StartsWith(url, <<"d", "a", "t", "a", ":">>) THEN FALSE
  ELSE TRUE

\* globalThis.location?.origin when it is truthy, else undefined
getBrowserBaseUrl(loc) == IF Truthy(loc) THEN loc ELSE Undefined

\* Mutant of StripTrailingSlash: every trailing slash is stripped (the base
\* URLs of the model end with two at most).
StripTrailingSlash_All(s) ==
  IF Len(s) > 1 /\ s[Len(s)] = "/" /\ s[Len(s) - 1] = "/" THEN SubSeq(s, 1, Len(s) - 2)
  ELSE IF Len(s) > 0 /\ s[Len(s)] = "/" THEN SubSeq(s, 1, Len(s) - 1)
  ELSE s

\* Mutant of StripTrailingSlash: the base is used as it is.
StripTrailingSlash_None(s) == s

\* effectiveBaseUrl.replace(/\/$/, '')
StripTrailingSlash(s) ==
  IF Len(s) > 0 /\ s[Len(s)] = "/" THEN SubSeq(s, 1, Len(s) - 1) ELSE s

\* Mutant of resolveUrl: a base URL that is available is prepended to every
\* URL, the absolute ones too.
resolveUrl_BaseFirst(url, baseUrl, stored, loc) ==
  LET config == getConfig(stored)
      effectiveBaseUrl ==
        Nullish(baseUrl, Nullish(config.baseUrl, getBrowserBaseUrl(loc)))
  IN  IF ~Truthy(effectiveBaseUrl)
      THEN IF ~isRelativeUrl(url) THEN Return(Str(url))
           ELSE Throw(<<"Cannot resolve relative URL \"", url, "\". ",
                        "Please configure a baseUrl using configure({ baseUrl: '...' }) ",
                        "or pass baseUrl in options. ",
                        "In browser environments, this is auto-detected from window.location.origin.">>)
      ELSE
        LET normalizedBase == StripTrailingSlash(effectiveBaseUrl.s)
            normalizedPath == IF StartsWith(url, <<"/">>) THEN url ELSE <<"/">> \o url
        IN  Return(Str(normalizedBase \o normalizedPath))

\* Mutant of resolveUrl: the error does not name the URL.
resolveUrl_UrlNotNamed(url, baseUrl, stored, loc) ==
  IF ~isRelativeUrl(url) THEN Return(Str(url))
  ELSE
    LET config == getConfig(stored)
        effectiveBaseUrl ==
          Nullish(baseUrl, Nullish(config.baseUrl, getBrowserBaseUrl(loc)))
    IN  IF ~Truthy(effectiveBaseUrl)
        THEN Throw(<<"Cannot resolve relative URL. ",
                     "Please configure a baseUrl using configure({ baseUrl: '...' }) ",
                     "or pass baseUrl in options. ",
                     "In browser environments, this is auto-detected from window.location.origin.">>)
        ELSE
          LET normalizedBase == StripTrailingSlash(effectiveBaseUrl.s)
              normalizedPath == IF StartsWith(url, <<"/">>) THEN url ELSE <<"/">> \o url
          IN  Return(Str(normalizedBase \o normalizedPath))

resolveUrl(url, baseUrl, stored, loc) ==
  IF ~isRelativeUrl(url) THEN Return(Str(url))
  ELSE
    LET config == getConfig(stored)
        effectiveBaseUrl ==
          Nullish(baseUrl, Nullish(config.baseUrl, getBrowserBaseUrl(loc)))
    IN  IF ~Truthy(effectiveBaseUrl)
        THEN Throw(<<"Cannot resolve relative URL \"", url, "\". ",
                     "Please configure a baseUrl using configure({ baseUrl: '...' }) ",
                     "or pass baseUrl in options. ",
                     "In browser environments, this is auto-detected from window.location.origin.">>)
        ELSE
          LET normalizedBase == StripTrailingSlash(effectiveBaseUrl.s)
              normalizedPath == IF StartsWith(url, <<"/">>) THEN url ELSE <<"/">> \o url
          IN  Return(Str(normalizedBase \o normalizedPath))

(***************************************************************************)
(* urls.ts                                                                 *)
(***************************************************************************)
endpoint ==
  <<"h", "t", "t", "p", "s", ":", "/", "/", "p", "i", "x", "e", "l", "p", "u", "p",
    "p", "y", ".", "i", "o", "/", "a", "p", "i", "/", "i", "m", "a", "g", "e">>

webp == <<"w", "e", "b", "p">>

png == <<"p", "n", "g">>

\* TransformationOptions
Options(baseUrl, width, format) == [baseUrl |-> baseUrl, width |-> width, format |-> format]

\* tiny-invariant's message for invariant(condition, message)
InvariantFailed(message) == Throw(<<"Invariant failed: ", message>>)

\* Mutant of IsSupportedFormat: the comparison ignores case.
IsSupportedFormat_AnyCase(format) ==
  IsStr(format) /\ ToLowerCase(format.s) \in {webp, png}

\* format === 'webp' || format === 'png'
IsSupportedFormat(format) == format = Str(webp) \/ format = Str(png)

\* Mutant of ValidateOptions: the width is checked before the format.
ValidateOptions_WidthFirst(format, width) ==
  IF width = NaN THEN Throw(<<"Width must be a number.">>)
  ELSE IF Truthy(width) /\ width.n <= 0
  THEN Throw(<<"Width must be a positive number.">>)
  ELSE IF ~IsSupportedFormat(format)
  THEN Throw(<<"Invalid format. Supported formats are webp and png.">>)
  ELSE Return(Undefined)

\* The three checks of format and width, in the order of the code
ValidateOptions(format, width) ==
  IF ~IsSupportedFormat(format)
  THEN Throw(<<"Invalid format. Supported formats are webp and png.">>)
  ELSE IF width = NaN THEN Throw(<<"Width must be a number.">>)
  ELSE IF Truthy(width) /\ width.n <= 0
  THEN Throw(<<"Width must be a positive number.">>)
  ELSE Return(Undefined)

\* Mutant of WidthParams: every width that is a number is appended, 0 too.
WidthParams_ZeroKept(width) ==
  IF IsNum(width)
  THEN << <<<<"w", "i", "d", "t", "h">>, NumberToString(width.n)>> >>
  ELSE <<>>

\* if (width) { params.append('width', width.toString()) }
WidthParams(width) ==
  IF Truthy(width)
  THEN << <<<<"w", "i", "d", "t", "h">>, NumberToString(width.n)>> >>
  ELSE <<>>

\* Mutant of ImageParams: format is appended before url.
ImageParams_FormatFirst(projectSlug, resolvedUrl, format, width) ==
  <<  <<<<"p", "r", "o", "j", "e", "c", "t">>, projectSlug>>,
      <<<<"f", "o", "r", "m", "a", "t">>, ToLowerCase(format)>>,
      <<<<"u", "r", "l">>, resolvedUrl>> >>
  \o WidthParams(width)

\* The appended <<name, value>> pairs, in append order
ImageParams(projectSlug, resolvedUrl, format, width) ==
  <<  <<<<"p", "r", "o", "j", "e", "c", "t">>, projectSlug>>,
      <<<<"u", "r", "l">>, resolvedUrl>>,
      <<<<"f", "o", "r", "m", "a", "t">>, ToLowerCase(format)>> >>
  \o WidthParams(width)

buildImageUrl(projectSlug, originalImageUrl, options, stored, loc) ==
  IF ~Truthy(projectSlug) THEN InvariantFailed("projectSlug is required.")
  ELSE IF ~Truthy(originalImageUrl) THEN InvariantFailed("originalImageUrl is required.")
  ELSE
    LET resolved == resolveUrl(originalImageUrl.s, options.baseUrl, stored, loc)
        format == OrElse(options.format, Str(webp))
        width == options.width
        checked == ValidateOptions(format, width)
    IN  IF Threw(resolved) THEN resolved
        ELSE IF Threw(checked) THEN checked
        ELSE
          LET params == ImageParams(projectSlug.s, resolved.v.s, format.s, width)
          IN  Return(Str(endpoint \o <<"?">> \o SearchParamsToString(params)))

(***************************************************************************)
(* responsive.ts                                                           *)
(***************************************************************************)
\* A JavaScript array of numbers
Arr(a) == [k |-> "array", a |-> a]

defaultDeviceBreakpoints == <<480, 640, 750, 828, 1080, 1200, 1920, 2048, 3840>>

defaultImageBreakpoints == <<16, 32, 48, 64, 96, 128, 256, 384>>

\* ResponsiveImageOptions
ResponsiveOptions(baseUrl, width, sizes, format, responsive, deviceBreakpoints, imageBreakpoints) ==
  [baseUrl |-> baseUrl, width |-> width, sizes |-> sizes, format |-> format,
   responsive |-> responsive, deviceBreakpoints |-> deviceBreakpoints,
   imageBreakpoints |-> imageBreakpoints]

\* The matches of /(\d+)vw/g in s from position i on, each parsed with
\* parseInt: a match is a maximal run of digits directly followed by "vw"; the
\* search resumes after the match.
RECURSIVE VwValues(_, _)
VwValues(s, i) ==
  IF i > Len(s) THEN <<>>
  ELSE IF ~IsDigit(s[i]) THEN VwValues(s, i + 1)
  ELSE
    LET j == CHOOSE e \in i..Len(s) :
               /\ \A x \in i..e : IsDigit(s[x])
               /\ (e = Len(s) \/ ~IsDigit(s[e + 1]))
    IN  IF j + 2 <= Len(s) /\ s[j + 1] = "v" /\ s[j + 2] = "w"
        THEN <<ParseInt(SubSeq(s, i, j))>> \o VwValues(s, j + 3)
        ELSE VwValues(s, j + 1)

\* Math.min(...values) of a non-empty array
MathMin(values) ==
  CHOOSE m \in {values[i] : i \in 1..Len(values)} :
    \A i \in 1..Len(values) : m <= values[i]

Null == [k |-> "null"]

\* parseSmallestVw returns smallestVw / 100; the quotient is kept as the
\* number of hundredths, pct |-> smallestVw.
parseSmallestVw(sizes) ==
  LET vwValues == VwValues(sizes, 1)
  IN  IF vwValues = <<>> THEN Null
      ELSE [k |-> "fraction", pct |-> MathMin(vwValues)]

\* Mutant of Unique: no deduplication.
Unique_KeepAll(a) == a

\* Array.from(new Set(a)): the first occurrence of each value, in order
RECURSIVE Unique(_)
Unique(a) ==
  IF a = <<>> THEN <<>>
  ELSE LET init == Unique(SubSeq(a, 1, Len(a) - 1))
           last == a[Len(a)]
       IN  IF \E i \in 1..Len(init) : init[i] = last THEN init
           ELSE Append(init, last)

\* Mutant of SortAscending: the array is left in the caller's order.
SortAscending_Unsorted(a) == a

\* a.sort((a, b) => a - b): insertion of each element after the elements
\* that are not greater
RECURSIVE SortAscending(_)
SortAscending(a) ==
  IF a = <<>> THEN <<>>
  ELSE LET init == SortAscending(SubSeq(a, 1, Len(a) - 1))
           last == a[Len(a)]
           n == Cardinality({i \in 1..Len(init) : init[i] <= last})
       IN  SubSeq(init, 1, n) \o <<last>> \o SubSeq(init, n + 1, Len(init))

\* a.filter(pred) for pred a set of kept values
FilterSeq(a, keep) == SelectSeq(a, LAMBDA x : x \in keep)

minDeviceWidth == 480

\* Mutant of AtLeastMinImageWidth: > in place of >=.
AtLeastMinImageWidth_Strict(bp, pct) == bp * 100 > minDeviceWidth * pct

\* bp >= minDeviceWidth * smallestVw, with smallestVw = pct / 100.  The
\* comparison is made on exact integers; the double-precision product
\* 480 * (pct / 100) decides every integer bp the same way for pct <= 414.
AtLeastMinImageWidth(bp, pct) == bp * 100 >= minDeviceWidth * pct

\* Mutant of SrcSetEntry: an x-descriptor in place of the w-descriptor.
SrcSetEntry_XDescriptor(url, w) == url \o <<" ">> \o NumberToString(w) \o <<"x">>

\* `${url} ${w}w`
SrcSetEntry(url, w) == url \o <<" ">> \o NumberToString(w) \o <<"w">>

\* Mutant of SrcSetEntries: a width whose URL cannot be built is skipped.
RECURSIVE SrcSetEntries_SkipFailed(_, _, _, _, _, _)
SrcSetEntries_SkipFailed(widths, project, src, o, stored, loc) ==
  IF widths = <<>> THEN Return(<<>>)
  ELSE
    LET w == Head(widths)
        url == buildImageUrl(project, src, Options(o.baseUrl, Num(w), o.format),
                             stored, loc)
        rest == SrcSetEntries_SkipFailed(Tail(widths), project, src, o, stored, loc)
    IN  IF Threw(url) THEN rest
        ELSE Return(<<url.v.s \o <<" ">> \o NumberToString(w) \o <<"w">>>> \o rest.v)

\* widths.map((w) => `${buildImageUrl(project, src, {baseUrl, width: w, format})} ${w}w`):
\* the entries in order, or the first error thrown.
RECURSIVE SrcSetEntries(_, _, _, _, _, _)
SrcSetEntries(widths, project, src, o, stored, loc) ==
  IF widths = <<>> THEN Return(<<>>)
  ELSE
    LET w == Head(widths)
        url == buildImageUrl(project, src, Options(o.baseUrl, Num(w), o.format),
                             stored, loc)
    IN  IF Threw(url) THEN url
        ELSE LET rest == SrcSetEntries(Tail(widths), project, src, o, stored, loc)
             IN  IF Threw(rest) THEN rest
                 ELSE Return(<<SrcSetEntry(url.v.s, w)>> \o rest.v)

fluidSizes ==
  <<"(", "m", "i", "n", "-", "w", "i", "d", "t", "h", ":", " ", "1", "0", "2", "4",
    "p", "x", ")", " ", "1", "0", "2", "4", "p", "x", ",", " ", "1", "0", "0", "v", "w">>

fullWidthSizes == <<"1", "0", "0", "v", "w">>

\* a[0]: undefined for an empty array
First(a) == IF a = <<>> THEN Undefined ELSE Num(a[1])

\* Mutant of Strategy: a value counts as provided when it is not undefined.
Strategy_DefinedIsProvided(responsive, sizes, width) ==
  IF responsive = Bool(FALSE) THEN "non-responsive"
  ELSE IF sizes # Undefined THEN "sizes-based"
  ELSE IF width # Undefined THEN "width-based"
  ELSE "default"

\* Mutant of Strategy: responsive === false tested after sizes.
Strategy_SizesBeforeResponsive(responsive, sizes, width) ==
  IF Truthy(sizes) THEN "sizes-based"
  ELSE IF responsive = Bool(FALSE) THEN "non-responsive"
  ELSE IF Truthy(width) THEN "width-based"
  ELSE "default"

\* Mutant of Strategy: the width test placed before the sizes test.
Strategy_WidthBeforeSizes(responsive, sizes, width) ==
  IF responsive = Bool(FALSE) THEN "non-responsive"
  ELSE IF Truthy(width) THEN "width-based"
  ELSE IF Truthy(sizes) THEN "sizes-based"
  ELSE "default"

\* The branch of the decision tree that is taken: responsive === false,
\* then if (sizes), then if (width), else the default.
Strategy(responsive, sizes, width) ==
  IF responsive = Bool(FALSE) THEN "non-responsive"
  ELSE IF Truthy(sizes) THEN "sizes-based"
  ELSE IF Truthy(width) THEN "width-based"
  ELSE "default"

\* Mutant of AllBreakpoints: the width is added without its double.
AllBreakpoints_NoDouble(deviceBreakpoints, imageBreakpoints, width) ==
  deviceBreakpoints \o imageBreakpoints
  \o (IF Truthy(width) THEN <<width.n>> ELSE <<>>)

\* Mutant of AllBreakpoints: the width and its double are left out.
AllBreakpoints_NoWidth(deviceBreakpoints, imageBreakpoints, width) ==
  deviceBreakpoints \o imageBreakpoints

\* [...deviceBreakpoints, ...imageBreakpoints, ...(width ? [width, width * 2] : [])]
AllBreakpoints(deviceBreakpoints, imageBreakpoints, width) ==
  deviceBreakpoints \o imageBreakpoints
  \o (IF Truthy(width) THEN <<width.n, width.n * 2>> ELSE <<>>)

\* uniqueBreakpoints.filter((bp) => bp >= minImageWidth) when sizes holds a
\* vw value, uniqueBreakpoints otherwise
FilteredBreakpoints(uniqueBreakpoints, smallestVw) ==
  IF smallestVw # Null
  THEN FilterSeq(uniqueBreakpoints,
                 {bp \in {uniqueBreakpoints[i] : i \in 1..Len(uniqueBreakpoints)} :
                    AtLeastMinImageWidth(bp, smallestVw.pct)})
  ELSE uniqueBreakpoints

\* Mutant of FallbackWidth: the smallest candidate, filtered out or not.
FallbackWidth_UnfilteredFirst(filteredBreakpoints, uniqueBreakpoints) ==
  First(uniqueBreakpoints)

\* Mutant of FallbackWidth: no fallback to the unfiltered list.
FallbackWidth_FilteredOnly(filteredBreakpoints, uniqueBreakpoints) ==
  First(filteredBreakpoints)

\* filteredBreakpoints[0] || uniqueBreakpoints[0]
FallbackWidth(filteredBreakpoints, uniqueBreakpoints) ==
  OrElse(First(filteredBreakpoints), First(uniqueBreakpoints))

getResponsiveImageAttributes(project, src, options, stored, loc) ==
  LET baseUrl == options.baseUrl
      width == options.width
      sizes == options.sizes
      format == options.format
      responsive == Nullish(options.responsive, Bool(TRUE))
      deviceBreakpoints ==
        IF options.deviceBreakpoints = Undefined THEN defaultDeviceBreakpoints
        ELSE options.deviceBreakpoints.a
      imageBreakpoints ==
        IF options.imageBreakpoints = Undefined THEN defaultImageBreakpoints
        ELSE options.imageBreakpoints.a
      allBreakpoints == AllBreakpoints(deviceBreakpoints, imageBreakpoints, width)
      uniqueBreakpoints == SortAscending(Unique(allBreakpoints))
      strategy == Strategy(responsive, sizes, width)
  IN
  IF strategy = "non-responsive"
  THEN
    LET singleUrl == buildImageUrl(project, src, Options(baseUrl, width, format),
                                   stored, loc)
    IN  IF Threw(singleUrl) THEN singleUrl
        ELSE Return([src |-> singleUrl.v, srcSet |-> Str(<<>>)])
  ELSE IF strategy = "sizes-based"
  THEN
    LET smallestVw == parseSmallestVw(sizes.s)
        filteredBreakpoints == FilteredBreakpoints(uniqueBreakpoints, smallestVw)
        srcSetEntries ==
          SrcSetEntries(filteredBreakpoints, project, src, options, stored, loc)
        fallbackWidth == FallbackWidth(filteredBreakpoints, uniqueBreakpoints)
        fallbackSrc ==
          buildImageUrl(project, src, Options(baseUrl, fallbackWidth, format),
                        stored, loc)
    IN  IF Threw(srcSetEntries) THEN srcSetEntries
        ELSE IF Threw(fallbackSrc) THEN fallbackSrc
        ELSE Return([src |-> fallbackSrc.v,
                     srcSet |-> Str(Join(srcSetEntries.v, <<",", " ">>)),
                     sizes |-> sizes])
  ELSE IF strategy = "width-based"
  THEN
    LET srcSetEntries ==
          SrcSetEntries(uniqueBreakpoints, project, src, options, stored, loc)
        fallbackSrc ==
          buildImageUrl(project, src, Options(baseUrl, width, format), stored, loc)
    IN  IF Threw(srcSetEntries) THEN srcSetEntries
        ELSE IF Threw(fallbackSrc) THEN fallbackSrc
        ELSE Return([src |-> fallbackSrc.v,
                     srcSet |-> Str(Join(srcSetEntries.v, <<",", " ">>)),
                     sizes |-> Str(fluidSizes),
                     width |-> width])
  ELSE
    LET sortedBreakpoints == SortAscending(deviceBreakpoints)
        srcSetEntries ==
          SrcSetEntries(sortedBreakpoints, project, src, options, stored, loc)
        fallbackSrc ==
          buildImageUrl(project, src,
                        Options(baseUrl, First(sortedBreakpoints), format),
                        stored, loc)
    IN  IF Threw(srcSetEntries) THEN srcSetEntries
        ELSE IF Threw(fallbackSrc) THEN fallbackSrc
        ELSE Return([src |-> fallbackSrc.v,
                     srcSet |-> Str(Join(srcSetEntries.v, <<",", " ">>)),
                     sizes |-> Str(fullWidthSizes)])

(***************************************************************************)
(* The inputs of the calls                                                 *)
(***************************************************************************)
\* The longest custom deviceBreakpoints list
MaxLen == 2

RECURSIVE SeqsUpTo(_, _)
SeqsUpTo(S, n) ==
  IF n = 0 THEN {<<>>}
  ELSE LET shorter == SeqsUpTo(S, n - 1)
       IN  shorter \cup {Append(a, x) : a \in shorter, x \in S}

absoluteSrc ==
  <<"h", "t", "t", "p", "s", ":", "/", "/", "e", ".", "x", "/", "a", ".", "j", "p", "g">>

relativeSrc == <<"/", "a", ".", "j", "p", "g">>

callBase == <<"h", "t", "t", "p", "s", ":", "/", "/", "b", ".", "x", "/">>

configuredBase == <<"h", "t", "t", "p", "s", ":", "/", "/", "g", ".", "x">>

hostOrigin == <<"h", "t", "t", "p", "s", ":", "/", "/", "o", ".", "x">>

Projects == {Str(<<>>), Str(<<"p">>)}

Sources == {Str(<<>>), Str(absoluteSrc), Str(relativeSrc)}

BaseUrls == {Undefined, Str(callBase)}

Formats == {Undefined, Str(png), Str(<<"j", "p", "e", "g">>)}

Widths == {Undefined, NaN, Num(0), Num(-5), Num(120), Num(240)}

SizesValues ==
  {Undefined, Str(<<>>), Str(<<"3", "0", "0", "p", "x">>),
   Str(<<"1", "0", "0", "v", "w", ",", " ", "5", "0", "v", "w">>),
   Str(<<"1", "0", "0", "v", "w">>)}

Responsives == {Undefined, Bool(FALSE)}

\* The <<deviceBreakpoints, imageBreakpoints>> of the calls: the defaults, one
\* default with the other list empty, and custom lists that are unsorted,
\* repeat a value or hold a zero or a negative number.
BreakpointLists ==
  {<<Undefined, Undefined>>, <<Undefined, Arr(<<>>)>>, <<Arr(<<>>), Undefined>>,
   <<Arr(<<0, 480>>), Arr(<<>>)>>, <<Arr(<<480, -1>>), Arr(<<>>)>>}
  \cup {<<Arr(d), i>> : d \in SeqsUpTo({480, 640}, MaxLen),
                        i \in {Arr(<<>>), Arr(<<240, 120>>)}}

\* The lists passed along with responsive: false
PlainBreakpointLists ==
  {<<Undefined, Undefined>>, <<Arr(<<>>), Arr(<<>>)>>, <<Arr(<<640, 480>>), Arr(<<240, 120>>)>>}

Configs == {Config(Undefined), Config(Str(configuredBase))}

Locations == {Undefined, Str(hostOrigin)}

\* The <<project, src, baseUrl, format>> of the calls to
\* getResponsiveImageAttributes
ResponsiveCalls ==
  {<<Str(<<"p">>), Str(absoluteSrc), Undefined, Undefined>>,
   <<Str(<<"p">>), Str(absoluteSrc), Undefined, Str(png)>>,
   <<Str(<<"p">>), Str(absoluteSrc), Undefined, Str(<<"j", "p", "e", "g">>)>>,
   <<Str(<<>>), Str(absoluteSrc), Undefined, Undefined>>,
   <<Str(<<"p">>), Str(relativeSrc), Undefined, Undefined>>,
   <<Str(<<"p">>), Str(relativeSrc), Str(callBase), Str(png)>>}

(***************************************************************************)
(* The state machine: one action per public operation.  The library is     *)
(* synchronous and single-threaded: the caller makes one call at a time,   *)
(* the call runs to completion, and the caller goes on (Continue) before   *)
(* its next call.  call records the operation in progress and its          *)
(* arguments, ret what it returned or threw.                               *)
(***************************************************************************)
Idle == [op |-> "none"]

Init ==
  /\ globalConfig = EmptyConfig
  /\ location \in Locations
  /\ call = Idle
  /\ ret = Return(Undefined)
  /\ held = NoHeld
  /\ written = EmptyConfig

\* The call record of configure also keeps the configuration it replaces.
configure(config) ==
  /\ call = Idle
  /\ LET stores == configureStores(globalConfig, config)
     IN  /\ globalConfig' = stores.value
         /\ held' = [arg |-> IF stores.fresh THEN Obj(config, FALSE) ELSE StoredRef,
                     snap |-> Detach(held.snap, globalConfig),
                     prev |-> NoObj,
                     stale |-> TRUE]
  /\ written' = [baseUrl |-> config.baseUrl]
  /\ call' = [op |-> "configure", config |-> config, replaced |-> globalConfig]
  /\ ret' = Return(Undefined)
  /\ UNCHANGED location

resetConfig ==
  /\ call = Idle
  /\ globalConfig' = EmptyConfig
  /\ held' = [arg |-> Detach(held.arg, globalConfig),
              snap |-> Detach(held.snap, globalConfig),
              prev |-> NoObj,
              stale |-> TRUE]
  /\ written' = EmptyConfig
  /\ call' = [op |-> "resetConfig"]
  /\ ret' = Return(Undefined)
  /\ UNCHANGED location

GetConfig ==
  /\ call = Idle
  /\ call' = [op |-> "getConfig"]
  /\ LET returns == getConfigReturns(globalConfig)
     IN  /\ ret' = Return(returns.value)
         /\ held' = [arg |-> held.arg,
                     snap |-> IF returns.fresh THEN Obj(returns.value, returns.frozen)
                              ELSE StoredRef,
                     prev |-> IF held.stale THEN NoObj ELSE held.snap,
                     stale |-> FALSE]
  /\ UNCHANGED <<globalConfig, location, written>>

\* The caller assigns value to the baseUrl of an object it holds: the object
\* it passed to configure ("arg"), the last object getConfig returned
\* ("snap") or the one before ("prev").  Assigning to a frozen object changes
\* nothing; assigning to the object the store refers to changes the store.
Mutate(slot, value) ==
  /\ call = Idle
  /\ held[slot] # NoObj
  /\ call' = [op |-> "mutate", slot |-> slot, value |-> value]
  /\ ret' = Return(Undefined)
  /\ IF held[slot] = StoredRef
     THEN /\ globalConfig' = [baseUrl |-> value]
          /\ UNCHANGED held
     ELSE /\ held' = IF held[slot].frozen THEN held
                     ELSE [held EXCEPT ![slot] = Obj([baseUrl |-> value], FALSE)]
          /\ UNCHANGED globalConfig
  /\ UNCHANGED <<location, written>>

IsRelativeUrl(url) ==
  /\ call = Idle
  /\ call' = [op |-> "isRelativeUrl", url |-> url]
  /\ ret' = Return(Bool(isRelativeUrl(url.s)))
  /\ UNCHANGED <<globalConfig, location, held, written>>

\* Mutant of ResolveUrl: a baseUrl passed to the call is remembered as the
\* global configuration.
ResolveUrl_StoresBase(url, baseUrl) ==
  /\ call = Idle
  /\ call' = [op |-> "resolveUrl", url |-> url, baseUrl |-> baseUrl]
  /\ ret' = resolveUrl(url.s, baseUrl, globalConfig, location)
  /\ globalConfig' = IF baseUrl = Undefined THEN globalConfig ELSE [baseUrl |-> baseUrl]
  /\ UNCHANGED <<location, held, written>>

ResolveUrl(url, baseUrl) ==
  /\ call = Idle
  /\ call' = [op |-> "resolveUrl", url |-> url, baseUrl |-> baseUrl]
  /\ ret' = resolveUrl(url.s, baseUrl, globalConfig, location)
  /\ UNCHANGED <<globalConfig, location, held, written>>

BuildImageUrl(projectSlug, originalImageUrl, options) ==
  /\ call = Idle
  /\ call' = [op |-> "buildImageUrl", projectSlug |-> projectSlug,
              originalImageUrl |-> originalImageUrl, options |-> options]
  /\ ret' = buildImageUrl(projectSlug, originalImageUrl, options, globalConfig, location)
  /\ UNCHANGED <<globalConfig, location, held, written>>

GetResponsiveImageAttributes(project, src, options) ==
  /\ call = Idle
  /\ call' = [op |-> "getResponsiveImageAttributes", project |-> project,
              src |-> src, options |-> options]
  /\ ret' = getResponsiveImageAttributes(project, src, options, globalConfig, location)
  /\ UNCHANGED <<globalConfig, location, held, written>>

\* The caller has taken the result and is ready for its next call; it keeps
\* no reference to the objects of its calls.
Continue ==
  /\ call # Idle
  /\ call' = Idle
  /\ ret' = Return(Undefined)
  /\ held' = NoHeld
  /\ UNCHANGED <<globalConfig, location, written>>

\* The caller goes on and keeps the objects it holds.
Keep ==
  /\ call # Idle
  /\ call' = Idle
  /\ ret' = Return(Undefined)
  /\ UNCHANGED <<globalConfig, location, held, written>>

Next ==
  \/ Continue
  \/ \E config \in Configs : configure(config)
  \/ resetConfig
  \/ GetConfig
  \/ \E url \in Sources : IsRelativeUrl(url)
  \/ \E url \in Sources, baseUrl \in BaseUrls : ResolveUrl(url, baseUrl)
  \/ \E projectSlug \in Projects, originalImageUrl \in Sources, baseUrl \in BaseUrls,
        width \in Widths, format \in Formats :
       BuildImageUrl(projectSlug, originalImageUrl, Options(baseUrl, width, format))
  \/ \E c \in ResponsiveCalls, width \in Widths, sizes \in SizesValues,
        responsive \in Responsives :
     \E lists \in IF responsive = Bool(FALSE) THEN PlainBreakpointLists
                   ELSE BreakpointLists :
       GetResponsiveImageAttributes(
         c[1], c[2],
         ResponsiveOptions(c[3], width, sizes, c[4], responsive, lists[1], lists[2]))
  \* an absolute source with a baseUrl passed, the lists left to their defaults
  \/ \E width \in Widths, sizes \in SizesValues, responsive \in Responsives :
       GetResponsiveImageAttributes(
         Str(<<"p">>), Str(absoluteSrc),
         ResponsiveOptions(Str(callBase), width, sizes, Undefined, responsive,
                           Undefined, Undefined))

Spec == Init /\ [][Next]_vars

(***************************************************************************)
(* The URL layer on its own: configure, resetConfig, isRelativeUrl,        *)
(* resolveUrl and buildImageUrl, called with URLs made of a prefix and a   *)
(* tail, with base URLs that are absent, empty, or end in no, one or two   *)
(* slashes, and with slugs and formats of every kind.                      *)
(***************************************************************************)
\* The longest generated tail of a URL
MaxTail == 1

UrlPrefixes ==
  {<<>>, <<"/">>, <<".", "/">>, <<".", ".", "/">>, <<"/", "/">>,
   <<"h", "t", "t", "p", ":", "/", "/">>, <<"h", "t", "t", "p", "s", ":", "/", "/">>,
   <<"d", "a", "t", "a", ":">>, <<"H", "T", "T", "P", ":", "/", "/">>,
   <<"h", "t", "t", "p", ":", "/">>, <<"f", "t", "p", ":", "/", "/">>}

TailChars == {"a", "/", " ", "&"}

UrlTails ==
  SeqsUpTo(TailChars, MaxTail)
  \cup {<<"a", " ", "b", ".", "j", "p", "g", "?", "x", "=", "1", "&", "y", "=", "2", "#", "f">>,
        <<"a", "+", "b", "%", "2", "0", "c">>}

Urls == {prefix \o tail : prefix \in UrlPrefixes, tail \in UrlTails}

doubleSlashBase == <<"h", "t", "t", "p", "s", ":", "/", "/", "b", ".", "x", "/", "/">>

slashesBase == <<"/", "/">>

UrlBaseUrls ==
  {Undefined, Str(<<>>), Str(callBase), Str(doubleSlashBase), Str(slashesBase)}

UrlConfigs == {Config(Undefined), Config(Str(<<>>)), Config(Str(configuredBase))}

UrlLocations == {Undefined, Str(<<>>), Str(hostOrigin)}

BuilderProjects == {Str(<<>>), Str(<<"p">>), Str(<<"a", " ", "b", "&", "c">>)}

absolutePrefix == <<"h", "t", "t", "p", "s", ":", "/", "/", "e", ".", "x", "/">>

BuilderSources ==
  {Str(<<>>), Str(relativeSrc)} \cup {Str(absolutePrefix \o tail) : tail \in UrlTails}

BuilderBaseUrls == {Undefined, Str(callBase)}

BuilderWidthValues == {Undefined, NaN, Num(0), Num(-5), Num(120)}

BuilderFormats ==
  {Undefined, Str(<<>>), Str(webp), Str(png), Str(<<"j", "p", "e", "g">>),
   Str(<<"P", "N", "G">>)}

UrlInit ==
  /\ globalConfig = EmptyConfig
  /\ location \in UrlLocations
  /\ call = Idle
  /\ ret = Return(Undefined)
  /\ held = NoHeld
  /\ written = EmptyConfig

UrlNext ==
  \/ Continue
  \/ \E config \in UrlConfigs : configure(config)
  \/ resetConfig
  \/ GetConfig
  \/ \E url \in Urls : IsRelativeUrl(Str(url))
  \/ \E url \in Urls, baseUrl \in UrlBaseUrls : ResolveUrl(Str(url), baseUrl)
  \/ \E projectSlug \in BuilderProjects, originalImageUrl \in BuilderSources,
        baseUrl \in BuilderBaseUrls, width \in BuilderWidthValues,
        format \in BuilderFormats :
       BuildImageUrl(projectSlug, originalImageUrl, Options(baseUrl, width, format))

UrlSpec == UrlInit /\ [][UrlNext]_vars

(***************************************************************************)
(* The configuration store and its caller: the caller writes (configure,   *)
(* resetConfig), reads (getConfig, resolveUrl of a relative URL), keeps    *)
(* the objects it passed and received, and assigns to their baseUrl.       *)
(***************************************************************************)
mutatedBase == <<"h", "t", "t", "p", "s", ":", "/", "/", "m", ".", "x">>

StoreConfigs == {Config(Undefined), Config(Str(configuredBase)), Config(Str(callBase))}

AssignedValues == {Undefined, Str(mutatedBase)}

Slots == {"arg", "snap", "prev"}

StoreNext ==
  \/ Continue
  \/ Keep
  \/ \E config \in StoreConfigs : configure(config)
  \/ resetConfig
  \/ GetConfig
  \/ \E slot \in Slots, value \in AssignedValues : Mutate(slot, value)
  \/ \E baseUrl \in BaseUrls : ResolveUrl(Str(relativeSrc), baseUrl)

StoreSpec == Init /\ [][StoreNext]_vars

(***************************************************************************)
(* Reading a call of getResponsiveImageAttributes and its result           *)
(***************************************************************************)
Responsive == call.op = "getResponsiveImageAttributes"

Returned == ret.k = "return"

\* A width counts as provided when it is a non-zero number, sizes when it is
\* a non-empty string: the conditions `width ?`, `if (sizes)`, `if (width)`.
WidthProvided == call.options.width.k = "number" /\ call.options.width.n # 0

SizesProvided == call.options.sizes.k = "string" /\ call.options.sizes.s # <<>>

NotResponsive == call.options.responsive = Bool(FALSE)

InSizesBased == Responsive /\ ~NotResponsive /\ SizesProvided

InWidthBased == Responsive /\ ~NotResponsive /\ ~SizesProvided /\ WidthProvided

InDefault == Responsive /\ ~NotResponsive /\ ~SizesProvided /\ ~WidthProvided

InNonResponsive == Responsive /\ NotResponsive

DeviceList ==
  IF call.options.deviceBreakpoints = Undefined
  THEN <<480, 640, 750, 828, 1080, 1200, 1920, 2048, 3840>>
  ELSE call.options.deviceBreakpoints.a

ImageList ==
  IF call.options.imageBreakpoints = Undefined
  THEN <<16, 32, 48, 64, 96, 128, 256, 384>>
  ELSE call.options.imageBreakpoints.a

Range(a) == {a[i] : i \in 1..Len(a)}

\* The candidate widths: the union of the two lists and, if a width is
\* provided, width and 2 * width
Candidates ==
  Range(DeviceList) \cup Range(ImageList)
  \cup (IF WidthProvided THEN {call.options.width.n, 2 * call.options.width.n} ELSE {})

Least(S) == CHOOSE m \in S : \A x \in S : m <= x

\* The elements of a finite set of integers in ascending order
RECURSIVE Ascending(_)
Ascending(S) == IF S = {} THEN <<>> ELSE <<Least(S)>> \o Ascending(S \ {Least(S)})

\* The values of the '<integer>vw' tokens of s: a maximal run of digits
\* directly followed by "vw"
VwTokens(s) ==
  {ParseInt(SubSeq(s, i, j)) : <<i, j>> \in
     {p \in (1..Len(s)) \X (1..Len(s)) :
        /\ p[1] <= p[2]
        /\ \A x \in p[1]..p[2] : IsDigit(s[x])
        /\ (p[1] = 1 \/ ~IsDigit(s[p[1] - 1]))
        /\ p[2] + 2 <= Len(s)
        /\ s[p[2] + 1] = "v"
        /\ s[p[2] + 2] = "w"}}

\* The candidates that are not below 480 * (smallest vw integer) / 100; all
\* of them when sizes has no vw token
Survivors ==
  LET tokens == VwTokens(call.options.sizes.s)
  IN  IF tokens = {} THEN Candidates
      ELSE {c \in Candidates : 100 * c >= 480 * Least(tokens)}

\* The parts of a non-empty s between the occurrences of the separator sep
\* (occurrences of sep do not overlap in the strings split here); no part
\* for the empty string
SplitOn(s, sep) ==
  IF s = <<>> THEN <<>>
  ELSE
    LET seps == Ascending({i \in 1..(Len(s) - Len(sep) + 1) :
                             SubSeq(s, i, i + Len(sep) - 1) = sep})
        n == Len(seps)
    IN  [i \in 1..(n + 1) |->
           SubSeq(s, IF i = 1 THEN 1 ELSE seps[i - 1] + Len(sep),
                     IF i = n + 1 THEN Len(s) ELSE seps[i] - 1)]

\* The entries of a srcSet: its parts between ', '
Entries(s) == SplitOn(s, <<",", " ">>)

LastSpace(e) ==
  LET spaces == {i \in 1..Len(e) : e[i] = " "}
  IN  IF spaces = {} THEN 0 ELSE CHOOSE i \in spaces : \A j \in spaces : j <= i

\* The part of a srcSet entry before its last space, and the part after it
EntryUrl(e) == SubSeq(e, 1, LastSpace(e) - 1)

EntryDescriptor(e) == SubSeq(e, LastSpace(e) + 1, Len(e))

IsWDescriptor(d) ==
  /\ Len(d) >= 2
  /\ d[Len(d)] = "w"
  /\ \A i \in 1..(Len(d) - 1) : IsDigit(d[i])

\* The width a w-descriptor entry names; -1 when the entry has none
EntryWidth(e) ==
  LET d == EntryDescriptor(e)
  IN  IF LastSpace(e) > 0 /\ IsWDescriptor(d) THEN ParseInt(SubSeq(d, 1, Len(d) - 1))
      ELSE -1

\* The widths of the entries of the returned srcSet, in order
SrcSetWidths ==
  LET entries == Entries(ret.v.srcSet.s)
  IN  [i \in 1..Len(entries) |-> EntryWidth(entries[i])]

HasField(f) == f \in DOMAIN ret.v

IsNonResponsiveResult ==
  /\ ret.v.srcSet = Str(<<>>)
  /\ ~HasField("sizes")
  /\ ~HasField("width")

IsSizesBasedResult ==
  /\ HasField("sizes")
  /\ ret.v.sizes = call.options.sizes
  /\ ~HasField("width")

IsWidthBasedResult ==
  /\ HasField("sizes")
  /\ ret.v.sizes = Str(<<"(", "m", "i", "n", "-", "w", "i", "d", "t", "h", ":", " ",
                         "1", "0", "2", "4", "p", "x", ")", " ", "1", "0", "2", "4",
                         "p", "x", ",", " ", "1", "0", "0", "v", "w">>)
  /\ HasField("width")
  /\ ret.v.width = call.options.width

IsDefaultResult ==
  /\ HasField("sizes")
  /\ ret.v.sizes = Str(<<"1", "0", "0", "v", "w">>)
  /\ ~HasField("width")

C2_StrictlyAscending ==
  (Responsive /\ ~NotResponsive /\ Returned) =>
    \A i \in 1..(Len(SrcSetWidths) - 1) : SrcSetWidths[i] < SrcSetWidths[i + 1]

\* A default-strategy call with a repeated device breakpoint has returned
C2_RepeatedDeviceBreakpoint ==
  /\ InDefault
  /\ Returned
  /\ Len(DeviceList) > Cardinality(Range(DeviceList))

\* C2 restricted to the strategies that build their widths from uniqueBreakpoints
C2_StrictlyAscendingOutsideDefault ==
  ((InSizesBased \/ InWidthBased) /\ Returned) =>
    \A i \in 1..(Len(SrcSetWidths) - 1) : SrcSetWidths[i] < SrcSetWidths[i + 1]

BuilderResult(width) ==
  buildImageUrl(call.project, call.src,
                Options(call.options.baseUrl, width, call.options.format),
                globalConfig, location)

ExpectedFallbackWidth ==
  IF Survivors # {} THEN Num(Least(Survivors))
  ELSE IF Candidates # {} THEN Num(Least(Candidates))
  ELSE Undefined

C4_SizesFallback ==
  (InSizesBased /\ Returned) =>
    /\ Return(ret.v.src) = BuilderResult(ExpectedFallbackWidth)
    /\ Survivors = {} => ret.v.srcSet = Str(<<>>)
    /\ IsSizesBasedResult

\* a width was given and the filter removed every candidate
C4_Witness ==
  /\ InSizesBased
  /\ Returned
  /\ WidthProvided
  /\ Candidates # {}
  /\ Survivors = {}

(***************************************************************************)
(* C5 as stated: in the sizes-based strategy, whenever a (positive) width   *)
(* is provided together with sizes, srcSet has an entry with the           *)
(* descriptor '<width>w'.                                                  *)
(***************************************************************************)
HasEntryFor(width) ==
  LET entries == Entries(ret.v.srcSet.s)
  IN  \E i \in 1..Len(entries) :
        /\ LastSpace(entries[i]) > 0
        /\ EntryDescriptor(entries[i]) = NumberToString(width) \o <<"w">>

Count(a, x) == Cardinality({i \in 1..Len(a) : a[i] = x})

EndsWith(s, p) == Len(s) >= Len(p) /\ SubSeq(s, Len(s) - Len(p) + 1, Len(s)) = p

C8_NonResponsive ==
  InNonResponsive =>
    IF Threw(BuilderResult(call.options.width))
    THEN ret = BuilderResult(call.options.width)
    ELSE ret = Return([src |-> BuilderResult(call.options.width).v,
                       srcSet |-> Str(<<>>)])

\* responsive === false with a width, a sizes and custom lists
C8_Witness ==
  /\ InNonResponsive
  /\ Returned
  /\ WidthProvided
  /\ SizesProvided
  /\ call.options.deviceBreakpoints # Undefined
  /\ call.options.imageBreakpoints # Undefined

(***************************************************************************)
(* C9 as stated: every srcSet entry is '<url> <w>w' where <url> is the     *)
(* transformation URL built with that same width w, so that its query      *)
(* carries width=<w>, and with the call's format; the entries are joined   *)
(* by ', ' and there are as many as surviving breakpoints.                 *)
(***************************************************************************)
\* The name=value parameters of the query of a URL
QueryParams(url) ==
  LET marks == {i \in 1..Len(url) : url[i] = "?"}
  IN  IF marks = {} THEN <<>>
      ELSE SplitOn(SubSeq(url, Least(marks) + 1, Len(url)), <<"&">>)

CarriesWidth(url, w) ==
  LET params == QueryParams(url)
  IN  \E i \in 1..Len(params) :
        params[i] = <<"w", "i", "d", "t", "h", "=">> \o NumberToString(w)

CarriesNoWidth(url) ==
  LET params == QueryParams(url)
  IN  \A i \in 1..Len(params) :
        ~StartsWith(params[i], <<"w", "i", "d", "t", "h", "=">>)

\* The format of the call: 'webp' when none is given
CallFormat ==
  IF call.options.format.k = "string" /\ call.options.format.s # <<>>
  THEN call.options.format.s
  ELSE <<"w", "e", "b", "p">>

CarriesFormat(url) ==
  LET params == QueryParams(url)
  IN  \E i \in 1..Len(params) :
        params[i] = <<"f", "o", "r", "m", "a", "t", "=">> \o CallFormat

\* The number of breakpoints the strategy of the call emits
SurvivingCount ==
  IF SizesProvided THEN Cardinality(Survivors)
  ELSE IF WidthProvided THEN Cardinality(Candidates)
  ELSE Len(DeviceList)

\* Entry e is '<url> <w>w' with <url> what the builder returns for width w
IsEntryOfItsWidth(e) ==
  LET w == EntryWidth(e)
      built == BuilderResult(Num(w))
  IN  /\ w >= 0
      /\ ~Threw(built)
      /\ e = built.v.s \o <<" ">> \o NumberToString(w) \o <<"w">>
      /\ CarriesFormat(EntryUrl(e))

C9_EntryForm ==
  (Responsive /\ ~NotResponsive /\ Returned) =>
    LET entries == Entries(ret.v.srcSet.s)
    IN  /\ \A i \in 1..Len(entries) :
             /\ IsEntryOfItsWidth(entries[i])
             /\ CarriesWidth(EntryUrl(entries[i]), EntryWidth(entries[i]))
        /\ Len(entries) = SurvivingCount

(***************************************************************************)
(* C9 amended: every srcSet entry is '<url> <w>w' where <url> is the       *)
(* transformation URL built with that same width w and with the call's     *)
(* format; its query carries width=<w> when w is not 0 and no width        *)
(* parameter when w is 0; the entries are joined by ', ' and there are as  *)
(* many as surviving breakpoints.                                          *)
(***************************************************************************)
C9_EntryFormZeroOmitted ==
  (Responsive /\ ~NotResponsive /\ Returned) =>
    LET entries == Entries(ret.v.srcSet.s)
    IN  /\ \A i \in 1..Len(entries) :
             /\ IsEntryOfItsWidth(entries[i])
             /\ IF EntryWidth(entries[i]) = 0
                THEN CarriesNoWidth(EntryUrl(entries[i]))
                ELSE CarriesWidth(EntryUrl(entries[i]), EntryWidth(entries[i]))
        /\ Len(entries) = SurvivingCount

\* custom lists with a zero breakpoint, format png: an entry for 0 and one
\* for another width
C9_Witness ==
  /\ Responsive
  /\ ~NotResponsive
  /\ Returned
  /\ call.options.format = Str(<<"p", "n", "g">>)
  /\ 0 \in Range(SrcSetWidths)
  /\ 480 \in Range(SrcSetWidths)

(***************************************************************************)
(* C10: an error raised by buildImageUrl (or by resolveUrl inside it)      *)
(* while getResponsiveImageAttributes runs reaches the caller unchanged    *)
(* and no attributes are returned: the call throws exactly when one of the *)
(* builder calls of its strategy throws, and what it throws is that        *)
(* builder call's error.  An invalid format makes the call fail in every   *)
(* strategy, also with empty breakpoint lists.                             *)
(***************************************************************************)
\* The width arguments of the builder calls the strategy of the call makes
BuilderWidths ==
  IF NotResponsive THEN {call.options.width}
  ELSE IF SizesProvided
  THEN {Num(c) : c \in Survivors} \cup {ExpectedFallbackWidth}
  ELSE IF WidthProvided
  THEN {Num(c) : c \in Candidates} \cup {call.options.width}
  ELSE {Num(c) : c \in Range(DeviceList)}
       \cup {IF DeviceList = <<>> THEN Undefined ELSE Num(Least(Range(DeviceList)))}

InvalidFormat ==
  /\ call.options.format.k = "string"
  /\ call.options.format.s \notin {<<>>, <<"w", "e", "b", "p">>, <<"p", "n", "g">>}

C10_ErrorsPropagate ==
  Responsive =>
    /\ (\E w \in BuilderWidths : Threw(BuilderResult(w))) <=> Threw(ret)
    /\ Threw(ret) => \E w \in BuilderWidths : ret = BuilderResult(w)
    /\ InvalidFormat => Threw(ret)

\* a builder call fails on a breakpoint in the middle of the map while the
\* fallback width is valid
C10_Witness ==
  /\ InWidthBased
  /\ Threw(ret)
  /\ \E c \in Candidates : Threw(BuilderResult(Num(c)))
  /\ ~Threw(BuilderResult(call.options.width))

\* an invalid format with both breakpoint lists empty
C10_WitnessEmptyLists ==
  /\ Responsive
  /\ Threw(ret)
  /\ InvalidFormat
  /\ DeviceList = <<>>
  /\ ImageList = <<>>
  /\ ~WidthProvided

(***************************************************************************)
(* C11: getResponsiveImageAttributes called with a width that is NaN or    *)
(* negative (project, source and format being valid) always fails with the *)
(* width validation error of the builder: 'Width must be a number.' for    *)
(* NaN, 'Width must be a positive number.' for a negative width, in every  *)
(* strategy and for every value of responsive and sizes.                   *)
(***************************************************************************)
\* Project, source and format of the call pass the builder's other checks
OtherInputsValid ==
  /\ call.project = Str(<<"p">>)
  /\ call.src = Str(absoluteSrc)
  /\ ~InvalidFormat

NegativeWidth == call.options.width.k = "number" /\ call.options.width.n < 0

C11_InvalidWidthFails ==
  (Responsive /\ OtherInputsValid) =>
    /\ call.options.width = NaN => ret = Throw(<<"Width must be a number.">>)
    /\ NegativeWidth => ret = Throw(<<"Width must be a positive number.">>)

\* width NaN, no sizes: the default strategy runs and returns its attributes
C11_NaNWidthAccepted ==
  /\ Responsive
  /\ OtherInputsValid
  /\ call.options.width = NaN
  /\ call.options.sizes = Undefined
  /\ Returned
  /\ IsDefaultResult

\* a negative width with sizes '100vw': the width is filtered out with the
\* other small candidates and the call returns
C11_NegativeWidthAccepted ==
  /\ Responsive
  /\ OtherInputsValid
  /\ NegativeWidth
  /\ SizesProvided
  /\ Returned
  /\ IsSizesBasedResult

(***************************************************************************)
(* Reading a call of buildImageUrl and its result                          *)
(***************************************************************************)
Builder == call.op = "buildImageUrl"

\* The text of the error thrown: the last segment of its message
ErrorText == ret.message[Len(ret.message)]

FailedWith(text) == Threw(ret) /\ ErrorText = text

EmptyProject == call.projectSlug.s = <<>>

EmptySource == call.originalImageUrl.s = <<>>

\* What the resolver does with the source and the baseUrl option of the call
ResolverResult ==
  resolveUrl(call.originalImageUrl.s, call.options.baseUrl, globalConfig, location)

(***************************************************************************)
(* C12: buildImageUrl checks its inputs in a fixed order and reports only  *)
(* the first failure: empty projectSlug, then empty originalImageUrl, then *)
(* the resolver's own error for a relative URL it cannot resolve, then an  *)
(* invalid format, then a NaN width, then a negative width; it returns     *)
(* when no check fails.                                                    *)
(***************************************************************************)
C12_FirstFailureWins ==
  Builder =>
    IF EmptyProject THEN FailedWith("projectSlug is required.")
    ELSE IF EmptySource THEN FailedWith("originalImageUrl is required.")
    ELSE IF Threw(ResolverResult) THEN ret = ResolverResult
    ELSE IF InvalidFormat
    THEN ret = Throw(<<"Invalid format. Supported formats are webp and png.">>)
    ELSE IF call.options.width = NaN THEN ret = Throw(<<"Width must be a number.">>)
    ELSE IF NegativeWidth THEN ret = Throw(<<"Width must be a positive number.">>)
    ELSE Returned

\* a relative source nobody can resolve, an invalid format and a NaN width at
\* once: the resolver's error is the one reported
C12_Witness ==
  /\ Builder
  /\ ~EmptyProject
  /\ ~EmptySource
  /\ Threw(ResolverResult)
  /\ InvalidFormat
  /\ call.options.width = NaN
  /\ ret = ResolverResult

\* an invalid format and a negative width at once: the format error
C12_WitnessFormatBeforeWidth ==
  /\ Builder
  /\ InvalidFormat
  /\ NegativeWidth
  /\ FailedWith("Invalid format. Supported formats are webp and png.")

\* every input invalid at once: the project error
C12_WitnessAllInvalid ==
  /\ Builder
  /\ EmptyProject
  /\ EmptySource
  /\ InvalidFormat
  /\ call.options.width = NaN
  /\ FailedWith("projectSlug is required.")

(***************************************************************************)
(* C13: for a valid project and URL (and a valid format), buildImageUrl    *)
(* treats width as follows: undefined or exactly 0 gives a URL with no     *)
(* width parameter and no error; a positive width n gives a URL with       *)
(* width=n, once; a negative width fails with 'Width must be a positive    *)
(* number.'; NaN fails with 'Width must be a number.'.                     *)
(***************************************************************************)
BuilderInputsValid ==
  /\ Builder
  /\ ~EmptyProject
  /\ ~EmptySource
  /\ ~Threw(ResolverResult)
  /\ ~InvalidFormat

\* The parameters of the query of url whose name is name
ParamsNamed(url, name) ==
  LET params == QueryParams(url)
  IN  {i \in 1..Len(params) : StartsWith(params[i], name \o <<"=">>)}

C13_WidthHandling ==
  BuilderInputsValid =>
    LET width == call.options.width
    IN  CASE width = Undefined \/ width = Num(0) ->
               Returned /\ CarriesNoWidth(ret.v.s)
          [] width = NaN -> ret = Throw(<<"Width must be a number.">>)
          [] width.k = "number" /\ width.n > 0 ->
               /\ Returned
               /\ CarriesWidth(ret.v.s, width.n)
               /\ Cardinality(ParamsNamed(ret.v.s, <<"w", "i", "d", "t", "h">>)) = 1
          [] width.k = "number" /\ width.n < 0 ->
               ret = Throw(<<"Width must be a positive number.">>)

\* width 0: a URL is returned, without width parameter
C13_Witness ==
  /\ BuilderInputsValid
  /\ call.options.width = Num(0)
  /\ Returned
  /\ CarriesNoWidth(ret.v.s)

\* a positive width: the URL carries it
C13_WitnessPositive ==
  /\ BuilderInputsValid
  /\ call.options.width = Num(120)
  /\ Returned
  /\ CarriesWidth(ret.v.s, 120)

(***************************************************************************)
(* C14 as stated: buildImageUrl (project, source and width being valid)    *)
(* uses format 'webp' when format is absent, accepts exactly the values    *)
(* 'webp' and 'png', fails with 'Invalid format. Supported formats are     *)
(* webp and png.' for every other value, 'jpeg' and 'PNG' included, and    *)
(* the format parameter of every returned URL is lower-case.               *)
(***************************************************************************)
FormatCallValid ==
  /\ Builder
  /\ ~EmptyProject
  /\ ~EmptySource
  /\ ~Threw(ResolverResult)
  /\ call.options.width # NaN
  /\ ~NegativeWidth

\* The value of the one parameter of the query of url whose name is name
ParamValue(url, name) ==
  LET params == QueryParams(url)
      i == CHOOSE j \in ParamsNamed(url, name) : TRUE
  IN  SubSeq(params[i], Len(name) + 2, Len(params[i]))

FormatParam(url) == ParamValue(url, <<"f", "o", "r", "m", "a", "t">>)

HasFormat(value) ==
  /\ Returned
  /\ Cardinality(ParamsNamed(ret.v.s, <<"f", "o", "r", "m", "a", "t">>)) = 1
  /\ FormatParam(ret.v.s) = value

IsLowerCase(s) == \A i \in 1..Len(s) : s[i] \notin {UpperCase[j] : j \in 1..26}

C14_EmptyFormatAccepted ==
  /\ FormatCallValid
  /\ call.options.format = Str(<<>>)
  /\ HasFormat(<<"w", "e", "b", "p">>)

(***************************************************************************)
(* Decoding a query, as a reader of the URL does it.  PercentDecode is     *)
(* decodeURIComponent on ASCII: every %XX becomes the character of code    *)
(* XX and nothing else changes.  FormDecode is the form-urlencoded parser  *)
(* (URLSearchParams): a + is a space, then %XX is decoded.                 *)
(***************************************************************************)
\* The printable ASCII characters, from code 32 (space) to code 126 (~); the
\* grave accent (code 96), which no string here holds, is left out.
Ascii ==
  <<" ", "!", "\"", "#", "$", "%", "&", "'", "(", ")", "*", "+", ",", "-", ".", "/",
    "0", "1", "2", "3", "4", "5", "6", "7", "8", "9", ":", ";", "<", "=", ">", "?",
    "@", "A", "B", "C", "D", "E", "F", "G", "H", "I", "J", "K", "L", "M", "N", "O",
    "P", "Q", "R", "S", "T", "U", "V", "W", "X", "Y", "Z", "[", "\\", "]", "^", "_",
    "", "a", "b", "c", "d", "e", "f", "g", "h", "i", "j", "k", "l", "m", "n", "o",
    "p", "q", "r", "s", "t", "u", "v", "w", "x", "y", "z", "{", "|", "}", "~">>

HexDigits ==
  <<"0", "1", "2", "3", "4", "5", "6", "7", "8", "9", "A", "B", "C", "D", "E", "F">>

IsHexDigit(c) == \E i \in 1..16 : HexDigits[i] = c

HexValue(c) == (CHOOSE i \in 1..16 : HexDigits[i] = c) - 1

CharOfCode(hi, lo) == Ascii[16 * HexValue(hi) + HexValue(lo) - 31]

IsEscape(s, i) ==
  /\ s[i] = "%"
  /\ i + 2 <= Len(s)
  /\ IsHexDigit(s[i + 1])
  /\ IsHexDigit(s[i + 2])
  /\ 16 * HexValue(s[i + 1]) + HexValue(s[i + 2]) \in (32..126) \ {96}

\* An escape never overlaps another: the two characters after its % are
\* hexadecimal digits.  The decoded string keeps every position that is not
\* one of those two, an escape's % standing for the decoded character.
PercentDecode(s) ==
  LET escapes == {i \in 1..Len(s) : IsEscape(s, i)}
      kept == SelectSeq([i \in 1..Len(s) |-> i],
                        LAMBDA i : (i - 1) \notin escapes /\ (i - 2) \notin escapes)
  IN  [k \in 1..Len(kept) |->
         IF kept[k] \in escapes
         THEN CharOfCode(s[kept[k] + 1], s[kept[k] + 2])
         ELSE s[kept[k]]]

FormDecode(s) == PercentDecode([i \in 1..Len(s) |-> IF s[i] = "+" THEN " " ELSE s[i]])

Contains(s, p) == \E i \in 1..(Len(s) - Len(p) + 1) : SubSeq(s, i, i + Len(p) - 1) = p

\* The names of the parameters of the query of url, in their order
KeyNames(url) ==
  LET params == QueryParams(url)
  IN  [i \in 1..Len(params) |->
         SubSeq(params[i], 1, Least({j \in 1..Len(params[i]) : params[i][j] = "="}) - 1)]

\* project, url, format and, when the width is defined and not 0, width
ExpectedKeys ==
  << <<"p", "r", "o", "j", "e", "c", "t">>, <<"u", "r", "l">>,
     <<"f", "o", "r", "m", "a", "t">> >>
  \o (IF WidthProvided THEN << <<"w", "i", "d", "t", "h">> >> ELSE <<>>)

ProjectParam(url) == ParamValue(url, <<"p", "r", "o", "j", "e", "c", "t">>)

UrlParam(url) == ParamValue(url, <<"u", "r", "l">>)

\* Only letters, digits and * - . _ : what a query value holds unescaped
Unreserved(s) == \A i \in 1..Len(s) : IsAlphaNum(s[i]) \/ s[i] \in {"*", "-", ".", "_"}

(***************************************************************************)
(* C15 as stated: every URL returned by buildImageUrl is                   *)
(* 'https://pixelpuppy.io/api/image?' followed by the query keys project,  *)
(* url, format and, only when width is defined and non-zero, width, in     *)
(* that order, each once; the project value is the raw slug, so the output *)
(* contains 'project=<slug>' for every non-empty slug.                     *)
(***************************************************************************)
C15_KeysAndRawSlug ==
  (Builder /\ Returned) =>
    /\ StartsWith(ret.v.s, endpoint \o <<"?">>)
    /\ KeyNames(ret.v.s) = ExpectedKeys
    /\ Contains(ret.v.s, <<"p", "r", "o", "j", "e", "c", "t", "=">> \o call.projectSlug.s)

(***************************************************************************)
(* C15 amended: every URL returned by buildImageUrl is                     *)
(* 'https://pixelpuppy.io/api/image?' followed by the query keys project,  *)
(* url, format and, only when width is defined and non-zero, width, in     *)
(* that order, each once; the project value is the slug encoded as a query *)
(* value (it decodes to the slug), so the output contains 'project=<slug>' *)
(* for every slug made of letters, digits and * - . _ only.                *)
(***************************************************************************)
C15_KeysAndEncodedSlug ==
  (Builder /\ Returned) =>
    /\ StartsWith(ret.v.s, endpoint \o <<"?">>)
    /\ KeyNames(ret.v.s) = ExpectedKeys
    /\ FormDecode(ProjectParam(ret.v.s)) = call.projectSlug.s
    /\ Unreserved(call.projectSlug.s) =>
         ProjectParam(ret.v.s) = call.projectSlug.s

\* a slug with a space and an ampersand, and a width: four keys, the slug
\* escaped
C15_Witness ==
  /\ Builder
  /\ Returned
  /\ ~Unreserved(call.projectSlug.s)
  /\ WidthProvided
  /\ Len(KeyNames(ret.v.s)) = 4
  /\ ProjectParam(ret.v.s) # call.projectSlug.s

(***************************************************************************)
(* C16 as stated: for every non-empty project slug and every absolute      *)
(* source URL, also one with its own query parameters, spaces or reserved  *)
(* characters, percent-decoding the output of buildImageUrl yields a       *)
(* string that contains the source URL exactly, and the url parameter      *)
(* percent-decodes to exactly that URL.                                    *)
(***************************************************************************)
\* Starts with http://, https://, // or data:
NotRelative(url) ==
  \/ StartsWith(url, <<"h", "t", "t", "p", ":", "/", "/">>)
  \/ StartsWith(url, <<"h", "t", "t", "p", "s", ":", "/", "/">>)
  \/ StartsWith(url, <<"/", "/">>)
  \/ StartsWith(url, <<"d", "a", "t", "a", ":">>)

AbsoluteSourceBuilt == Builder /\ Returned /\ NotRelative(call.originalImageUrl.s)

HasSpace(s) == \E i \in 1..Len(s) : s[i] = " "

C16_PercentDecodeRoundTrip ==
  AbsoluteSourceBuilt =>
    /\ Contains(PercentDecode(ret.v.s), call.originalImageUrl.s)
    /\ PercentDecode(UrlParam(ret.v.s)) = call.originalImageUrl.s

(***************************************************************************)
(* C16 amended: for every non-empty project slug and every absolute source *)
(* URL, the url parameter of the output of buildImageUrl, decoded as a     *)
(* query value (a + is a space, then percent-decoding), is exactly the     *)
(* source URL; when the source URL holds no space, percent-decoding alone  *)
(* does it too and the percent-decoded output contains the source URL.     *)
(***************************************************************************)
C16_FormDecodeRoundTrip ==
  AbsoluteSourceBuilt =>
    /\ FormDecode(UrlParam(ret.v.s)) = call.originalImageUrl.s
    /\ ~HasSpace(call.originalImageUrl.s) =>
         /\ Contains(PercentDecode(ret.v.s), call.originalImageUrl.s)
         /\ PercentDecode(UrlParam(ret.v.s)) = call.originalImageUrl.s

\* a source with a space, its own query and a fragment
C16_Witness ==
  /\ AbsoluteSourceBuilt
  /\ HasSpace(call.originalImageUrl.s)
  /\ Contains(call.originalImageUrl.s, <<"?", "x", "=", "1", "&", "y", "=", "2", "#">>)
  /\ FormDecode(UrlParam(ret.v.s)) = call.originalImageUrl.s

\* a source with a literal + and a literal %20, which stay what they are
C16_WitnessEscapes ==
  /\ AbsoluteSourceBuilt
  /\ Contains(call.originalImageUrl.s, <<"+", "b", "%", "2", "0">>)
  /\ PercentDecode(UrlParam(ret.v.s)) = call.originalImageUrl.s

(***************************************************************************)
(* Reading a call of resolveUrl and its result                             *)
(***************************************************************************)
Resolver == call.op = "resolveUrl"

RelativeResolved == Resolver /\ ~NotRelative(call.url.s)

\* A base URL is supplied: a string that is not empty
Supplies(v) == v.k = "string" /\ v.s # <<>>

\* The first of the baseUrl parameter, the configured baseUrl and the host's
\* origin that supplies a base URL; undefined when none does
FirstAvailable ==
  IF Supplies(call.baseUrl) THEN call.baseUrl
  ELSE IF Supplies(globalConfig.baseUrl) THEN globalConfig.baseUrl
  ELSE IF Supplies(location) THEN location
  ELSE Undefined

\* base without its one trailing slash, then url with one leading slash
Joined(base, url) ==
  (IF base # <<>> /\ base[Len(base)] = "/" THEN SubSeq(base, 1, Len(base) - 1) ELSE base)
  \o (IF url # <<>> /\ url[1] = "/" THEN url ELSE <<"/">> \o url)

(***************************************************************************)
(* C17: for a relative URL, resolveUrl uses the first available of the     *)
(* baseUrl parameter, the globally configured baseUrl and the host's       *)
(* location origin, in that order, and it fails if and only if none of the *)
(* three supplies a base URL, each of the three being absent, empty or     *)
(* non-empty.                                                              *)
(***************************************************************************)
C17_FirstAvailableBase ==
  RelativeResolved =>
    /\ Threw(ret) <=> FirstAvailable = Undefined
    /\ Returned => ret.v.s = Joined(FirstAvailable.s, call.url.s)

\* an empty baseUrl parameter with a configured baseUrl: the call fails
C17_EmptyParameterHidesConfig ==
  /\ RelativeResolved
  /\ call.baseUrl = Str(<<>>)
  /\ Supplies(globalConfig.baseUrl)
  /\ Threw(ret)

\* an empty configured baseUrl with a host origin: the call fails
C17_EmptyConfigHidesOrigin ==
  /\ RelativeResolved
  /\ call.baseUrl = Undefined
  /\ globalConfig.baseUrl = Str(<<>>)
  /\ Supplies(location)
  /\ Threw(ret)

\* What the code does: the first of the three that is not undefined is the
\* effective base, and the call fails when that one is empty or there is none
FirstDefined ==
  IF call.baseUrl # Undefined THEN call.baseUrl
  ELSE IF globalConfig.baseUrl # Undefined THEN globalConfig.baseUrl
  ELSE IF Supplies(location) THEN location
  ELSE Undefined

C17_FirstDefinedBase ==
  RelativeResolved =>
    /\ Threw(ret) <=> ~Supplies(FirstDefined)
    /\ Returned => ret.v.s = Joined(FirstDefined.s, call.url.s)

(***************************************************************************)
(* C18: for every URL that is not relative (it starts with http://,        *)
(* https://, // or data:) resolveUrl returns the URL unchanged, whatever   *)
(* the baseUrl parameter, the global configuration and the host origin     *)
(* are, and it never fails, also when no base URL is available at all.     *)
(***************************************************************************)
C18_AbsoluteUnchanged ==
  (Resolver /\ NotRelative(call.url.s)) => ret = Return(call.url)

\* a data: URL with no base URL anywhere
C18_Witness ==
  /\ Resolver
  /\ StartsWith(call.url.s, <<"d", "a", "t", "a", ":">>)
  /\ FirstAvailable = Undefined
  /\ ret = Return(call.url)

\* a protocol-relative URL with a baseUrl parameter and a configured baseUrl
C18_WitnessBaseIgnored ==
  /\ Resolver
  /\ StartsWith(call.url.s, <<"/", "/">>)
  /\ Supplies(call.baseUrl)
  /\ Supplies(globalConfig.baseUrl)
  /\ ret = Return(call.url)

(***************************************************************************)
(* C19 as stated: when resolveUrl resolves a relative URL against an       *)
(* effective base, the result is the base with exactly one trailing slash  *)
(* removed (if it had one) followed by the relative URL made to start with *)
(* exactly one leading slash; the URL, its query string and fragment       *)
(* included, is kept verbatim, so the result never has a doubled or        *)
(* missing slash at the join.                                              *)
(***************************************************************************)
RelativeJoined == RelativeResolved /\ Returned

EffectiveBase == FirstDefined.s

\* The relative URL as it stands in the result: with one leading slash
PathPart ==
  IF call.url.s # <<>> /\ call.url.s[1] = "/" THEN call.url.s ELSE <<"/">> \o call.url.s

\* What stands before the path in the result
BasePart == SubSeq(ret.v.s, 1, Len(ret.v.s) - Len(PathPart))

OneLeadingSlash(s) == s # <<>> /\ s[1] = "/" /\ (Len(s) >= 2 => s[2] # "/")

EndsWithSlash(s) == s # <<>> /\ s[Len(s)] = "/"

JoinedAsStated ==
  /\ ret.v.s = Joined(EffectiveBase, call.url.s)
  /\ EndsWith(ret.v.s, PathPart)
  /\ EndsWith(PathPart, call.url.s)
  /\ OneLeadingSlash(PathPart)

C19_NoDoubledSlash ==
  RelativeJoined => (JoinedAsStated /\ ~EndsWithSlash(BasePart))

(***************************************************************************)
(* C19 amended: when resolveUrl resolves a relative URL against an         *)
(* effective base, the result is the base with exactly one trailing slash  *)
(* removed (if it had one) followed by the relative URL made to start with *)
(* exactly one leading slash; the URL, its query string and fragment       *)
(* included, is kept verbatim.  The join has no missing slash, and it has  *)
(* a doubled slash exactly when the base ends with two slashes or more.    *)
(***************************************************************************)
C19_OneSlashStripped ==
  RelativeJoined =>
    /\ JoinedAsStated
    /\ EndsWithSlash(BasePart) <=> EndsWith(EffectiveBase, <<"/", "/">>)

\* a base with one trailing slash and a bare path with query and fragment
C19_Witness ==
  /\ RelativeJoined
  /\ EndsWithSlash(EffectiveBase)
  /\ ~EndsWith(EffectiveBase, <<"/", "/">>)
  /\ call.url.s # <<>>
  /\ call.url.s[1] # "/"
  /\ Contains(call.url.s, <<"?", "x", "=", "1", "&", "y", "=", "2", "#", "f">>)
  /\ ~EndsWithSlash(BasePart)

\* a base with two trailing slashes: one is left and doubles the join
C19_DoubledSlash ==
  /\ RelativeJoined
  /\ EndsWith(EffectiveBase, <<"/", "/">>)
  /\ EndsWithSlash(BasePart)

(***************************************************************************)
(* C20: isRelativeUrl(url) is false exactly when url starts with           *)
(* 'http://', 'https://', '//' or 'data:', and true for every other        *)
(* string: bare paths, '/'-prefixed paths, './' and '../' paths.           *)
(***************************************************************************)
RelativeAsked == call.op = "isRelativeUrl"

C20_RelativeExactly ==
  RelativeAsked => ret = Return(Bool(~NotRelative(call.url.s)))

\* a '../' path is relative
C20_Witness ==
  /\ RelativeAsked
  /\ StartsWith(call.url.s, <<".", ".", "/">>)
  /\ ret = Return(Bool(TRUE))

\* 'HTTP://...' in upper case is relative, '//' made of '/' and a tail '/' is not
C20_WitnessEdges ==
  /\ RelativeAsked
  /\ \/ /\ StartsWith(call.url.s, <<"H", "T", "T", "P", ":", "/", "/">>)
        /\ ret = Return(Bool(TRUE))
     \/ /\ call.url.s = <<"/", "/">>
        /\ ret = Return(Bool(FALSE))

(***************************************************************************)
(* Reading the calls of the configuration store                            *)
(***************************************************************************)
ConfigRead == call.op = "getConfig"

Configured == call.op = "configure"

Reset == call.op = "resetConfig"

Mutated == call.op = "mutate"

IsObj(obj) == obj # NoObj /\ obj # StoredRef

(***************************************************************************)
(* C21: after any sequence of configure and resetConfig calls, getConfig   *)
(* returns the value passed to the most recent configure if no resetConfig *)
(* came after it, and the empty configuration otherwise (the store starts  *)
(* empty).  configure replaces the stored value wholesale and never        *)
(* merges: after configure({}) the baseUrl is undefined whatever it was.   *)
(***************************************************************************)
C21_LastConfigureWins ==
  /\ ConfigRead => ret = Return(written)
  /\ Configured => globalConfig = [baseUrl |-> call.config.baseUrl]
  /\ Reset => globalConfig = EmptyConfig

\* configure({}) over a configuration that had a baseUrl
C21_Witness ==
  /\ Configured
  /\ call.config = Config(Undefined)
  /\ call.replaced.baseUrl # Undefined
  /\ globalConfig.baseUrl = Undefined

\* getConfig returns the baseUrl of the last configure
C21_WitnessRead ==
  /\ ConfigRead
  /\ written = Config(Str(callBase))
  /\ ret = Return(Config(Str(callBase)))

(***************************************************************************)
(* C22: the stored configuration is never aliased with an object the       *)
(* caller can reach: getConfig returns a frozen copy, two consecutive      *)
(* getConfig calls with no write in between return equal but distinct      *)
(* objects, and assigning to an object returned by getConfig or to the     *)
(* object passed to configure never changes the stored configuration, so   *)
(* never what a later getConfig returns.                                   *)
(***************************************************************************)
C22_NeverAliased ==
  /\ \A slot \in Slots : held[slot] # StoredRef
  /\ globalConfig = written
  /\ ConfigRead =>
       /\ IsObj(held.snap)
       /\ held.snap.frozen
       /\ held.snap.baseUrl = globalConfig.baseUrl
       /\ ret.v.baseUrl = held.snap.baseUrl
       /\ held.prev # NoObj =>
            /\ IsObj(held.prev)
            /\ held.prev.baseUrl = held.snap.baseUrl
  /\ (Mutated /\ call.slot \in {"snap", "prev"}) => held[call.slot].frozen

\* the caller has assigned to the object it passed to configure: that object
\* differs from the stored configuration
C22_Witness ==
  /\ Mutated
  /\ call.slot = "arg"
  /\ held.arg.baseUrl = Str(mutatedBase)
  /\ globalConfig.baseUrl = Str(callBase)

\* two consecutive getConfig calls, the first result kept
C22_WitnessTwoReads ==
  /\ ConfigRead
  /\ IsObj(held.prev)
  /\ IsObj(held.snap)
  /\ held.snap.baseUrl = Str(configuredBase)

\* the caller has tried to assign to a frozen result of getConfig
C22_WitnessFrozen ==
  /\ Mutated
  /\ call.slot = "snap"
  /\ call.value = Str(mutatedBase)
  /\ held.snap.baseUrl = Undefined

(***************************************************************************)
(* C23: only configure and resetConfig change the stored configuration:    *)
(* getConfig, isRelativeUrl, resolveUrl, buildImageUrl and                 *)
(* getResponsiveImageAttributes leave it unchanged, whether they return    *)
(* normally or fail with an error.                                         *)
(***************************************************************************)
C23_OnlyWritesChangeStore ==
  [][globalConfig' # globalConfig => call'.op \in {"configure", "resetConfig"}]_vars

\* a failed call on top of a configured baseUrl, which is still there
C23_Witness ==
  /\ call.op \in {"resolveUrl", "buildImageUrl", "getResponsiveImageAttributes"}
  /\ Threw(ret)
  /\ globalConfig = Config(Str(configuredBase))

CallSource ==
  IF Resolver THEN call.url
  ELSE IF Builder THEN call.originalImageUrl
  ELSE call.src

CallBaseUrl == IF Resolver THEN call.baseUrl ELSE call.options.baseUrl

CallProject == IF Builder THEN call.projectSlug ELSE call.project

\* No base URL is available to the call: none passed, configured or detected
NoBaseAvailable ==
  ~Truthy(Nullish(CallBaseUrl, Nullish(globalConfig.baseUrl, getBrowserBaseUrl(location))))

\* An input of the call is one the validation rejects
SomeInputInvalid ==
  /\ ~Resolver
  /\ \/ CallProject.s = <<>>
     \/ CallSource.s = <<>>
     \/ ~IsSupportedFormat(OrElse(call.options.format, Str(webp)))
     \/ call.options.width = NaN
     \/ call.options.width.k = "number" /\ call.options.width.n < 0
     \/ Responsive /\ \E w \in Range(DeviceList) \cup Range(ImageList) : w < 0

RequiredTexts == {"projectSlug is required.", "originalImageUrl is required."}

OptionTexts ==
  {"Invalid format. Supported formats are webp and png.", "Width must be a number.",
   "Width must be a positive number."}

\* The failure is one of the five validation failures
ValidationFailure ==
  \/ /\ Len(ret.message) = 2
     /\ ret.message[1] = "Invariant failed: "
     /\ ret.message[2] \in RequiredTexts
  \/ /\ Len(ret.message) = 1
     /\ ret.message[1] \in OptionTexts

\* The failure is the resolver's: its message quotes the URL and names the
\* three remedies
ConfigurationFailure ==
  /\ Len(ret.message) = 6
  /\ ret.message[1] = "Cannot resolve relative URL \""
  /\ ret.message[2] = CallSource.s
  /\ ret.message[3] = "\". "
  /\ ret.message[4] = "Please configure a baseUrl using configure({ baseUrl: '...' }) "
  /\ ret.message[5] = "or pass baseUrl in options. "
  /\ ret.message[6] =
       "In browser environments, this is auto-detected from window.location.origin."

C25_WitnessValidation ==
  /\ Responsive
  /\ Threw(ret)
  /\ ValidationFailure
  /\ ErrorText = "Width must be a number."

(***************************************************************************)
(* Reading the descriptors of the returned srcSet                          *)
(***************************************************************************)
IsXDescriptor(d) ==
  /\ Len(d) >= 2
  /\ d[Len(d)] = "x"
  /\ \A i \in 1..(Len(d) - 1) : IsDigit(d[i])

SrcSetDescriptors ==
  LET entries == Entries(ret.v.srcSet.s)
  IN  [i \in 1..Len(entries) |-> EntryDescriptor(entries[i])]

SrcSetUrls ==
  LET entries == Entries(ret.v.srcSet.s)
  IN  [i \in 1..Len(entries) |-> EntryUrl(entries[i])]

WithoutBaseUrl(options) == [options EXCEPT !.baseUrl = Undefined]

C27_BaseDoesNotInterfere ==
  /\ (Builder /\ NotRelative(call.originalImageUrl.s)) =>
       /\ ret = buildImageUrl(call.projectSlug, call.originalImageUrl,
                              WithoutBaseUrl(call.options), EmptyConfig, Undefined)
       /\ ~(Threw(ret) /\ ConfigurationFailure)
  /\ (Responsive /\ NotRelative(call.src.s)) =>
       /\ ret = getResponsiveImageAttributes(call.project, call.src,
                                             WithoutBaseUrl(call.options),
                                             EmptyConfig, Undefined)
       /\ ~(Threw(ret) /\ ConfigurationFailure)

\* a responsive call with an absolute source, a baseUrl passed, a baseUrl
\* configured and a host origin
C27_Witness ==
  /\ Responsive
  /\ Returned
  /\ NotRelative(call.src.s)
  /\ call.options.baseUrl = Str(callBase)
  /\ globalConfig = Config(Str(configuredBase))
  /\ location = Str(hostOrigin)
  /\ ret.v.srcSet.s # <<>>

\* the same for the builder
C27_WitnessBuilder ==
  /\ Builder
  /\ Returned
  /\ NotRelative(call.originalImageUrl.s)
  /\ call.options.baseUrl = Str(callBase)
  /\ globalConfig = Config(Str(configuredBase))
  /\ location = Str(hostOrigin)

(***************************************************************************)
(* C28: whenever getResponsiveImageAttributes returns a non-empty srcSet,  *)
(* the fallback src is identical to the URL part of one of the srcSet      *)
(* entries: the first entry in the sizes-based and default strategies, the *)
(* entry for the given width in the width-based strategy.                  *)
(***************************************************************************)
NonEmptySrcSet == Responsive /\ Returned /\ ret.v.srcSet.s # <<>>

C28_SrcIsAnEntry ==
  NonEmptySrcSet =>
    IF InWidthBased
    THEN \E i \in 1..Len(SrcSetUrls) :
           /\ SrcSetDescriptors[i] = NumberToString(call.options.width.n) \o <<"w">>
           /\ SrcSetUrls[i] = ret.v.src.s
    ELSE SrcSetUrls[1] = ret.v.src.s

\* sizes-based, and the filter has removed the smallest candidates
C28_Witness ==
  /\ NonEmptySrcSet
  /\ InSizesBased
  /\ Survivors # {}
  /\ Least(Survivors) # Least(Candidates)

\* width-based, the entry for the width is not the first one
C28_WitnessWidthBased ==
  /\ NonEmptySrcSet
  /\ InWidthBased
  /\ SrcSetWidths[1] # call.options.width.n

(***************************************************************************)
(* C29: in strategy selection a width of 0 and an empty sizes string count *)
(* as not provided.  With responsive not false, width 0 and no sizes gives *)
(* the default result: sizes '100vw', no width field, and one srcSet entry *)
(* per device breakpoint, none added for width or 2 * width; sizes ''      *)
(* with a positive width gives the width-based result, not the sizes-based *)
(* one.                                                                    *)
(***************************************************************************)
ZeroWidthNoSizes ==
  /\ Responsive
  /\ ~NotResponsive
  /\ call.options.width = Num(0)
  /\ call.options.sizes = Undefined

EmptySizesPositiveWidth ==
  /\ Responsive
  /\ ~NotResponsive
  /\ call.options.sizes = Str(<<>>)
  /\ call.options.width.k = "number"
  /\ call.options.width.n > 0

C29_ZeroAndEmptyNotProvided ==
  /\ (ZeroWidthNoSizes /\ Returned) =>
       /\ IsDefaultResult
       /\ Len(SrcSetWidths) = Len(DeviceList)
       /\ Range(SrcSetWidths) = Range(DeviceList)
  /\ (EmptySizesPositiveWidth /\ Returned) =>
       /\ IsWidthBasedResult
       /\ ret.v.sizes # call.options.sizes
       /\ HasEntryFor(call.options.width.n)
       /\ HasEntryFor(2 * call.options.width.n)

\* width 0 with the default lists: 0 is no device breakpoint
C29_Witness ==
  /\ ZeroWidthNoSizes
  /\ Returned
  /\ call.options.deviceBreakpoints = Undefined
  /\ Len(SrcSetWidths) = 9

\* sizes '' with a positive width
C29_WitnessEmptySizes ==
  /\ EmptySizesPositiveWidth
  /\ Returned
  /\ ret.v.width = Num(120)

(***************************************************************************)
(* C30: resolveUrl is idempotent when the effective base URL is absolute:  *)
(* for every URL u and absolute base b, resolveUrl(u, b) is not relative   *)
(* (isRelativeUrl of it is false), and resolving it again with any base,   *)
(* or with none, returns it unchanged.                                     *)
(***************************************************************************)
AbsoluteBase == Resolver /\ FirstDefined # Undefined /\ NotRelative(FirstDefined.s)

C30_ResolveIdempotent ==
  AbsoluteBase =>
    /\ Returned
    /\ ~isRelativeUrl(ret.v.s)
    /\ \A baseUrl \in UrlBaseUrls, config \in UrlConfigs, loc \in UrlLocations :
         resolveUrl(ret.v.s, baseUrl, config, loc) = ret

\* a relative URL joined to a base that is two slashes only: the slash
\* stripped from the base comes back with the path
C30_Witness ==
  /\ AbsoluteBase
  /\ call.baseUrl = Str(slashesBase)
  /\ ~NotRelative(call.url.s)
  /\ Returned
  /\ StartsWith(ret.v.s, <<"/", "/">>)

\* a relative URL joined to a configured base
C30_WitnessConfigured ==
  /\ AbsoluteBase
  /\ call.baseUrl = Undefined
  /\ ~NotRelative(call.url.s)
  /\ Returned
  /\ StartsWith(ret.v.s, configuredBase)

====
